---- MODULE Spec2Model ----
(***************************************************************************)
(* Order service: request handlers (internal/web/v1), order service        *)
(* (internal/logic/v1) and the PostgreSQL order store and transaction      *)
(* manager (internal/core/repository), as a state machine.                 *)
(*                                                                         *)
(* Each request is one element of `rq`.  A request advances                *)
(* one database statement or one outbound HTTP call at a time, so that     *)
(* requests interleave at exactly the points where the Go code blocks.     *)
(* The database is two tables of committed rows plus, per request, the     *)
(* rows written inside its still-open transaction (READ COMMITTED: other   *)
(* requests never see them before Commit).                                 *)
(*                                                                         *)
(* Amounts (price, subtotal, shipping, total) are float64 in the source.   *)
(* The model draws them from whole numbers, on which float64               *)
(* multiplication and addition are exact, and writes them as integers.     *)
(***************************************************************************)
EXTENDS Integers, Sequences, FiniteSets, TLC

(* ------------------------------ bounds -------------------------------- *)

\* Number of requests the service receives in one behaviour.  Each is
\* handled on its own and concurrently with the others (request-per-call).
MaxRequests == 2

\* Longest item list a request carries.
MaxItems == 2

(* ----------------------------- constants ------------------------------ *)

\* Fixed shipping charge (the literal 5.00).
FixedShipping == 5

Reqs == 1..MaxRequests

\* Identities the authentication middleware may bind to a request context.
Users == {"u1", "u2"}

\* c.GetString("user_id") of a context without the key.
NoUser == ""

\* Items as a client may send them (domain.OrderItem decoded from JSON), in
\* the order a request lists them.  The first has no product name; the
\* second carries a product name and a client-asserted subtotal that is not
\* price * quantity.
Catalogue ==
  << [product_id |-> "p1", product_name |-> "", quantity |-> 2, price |-> 10, subtotal |-> 0],
     [product_id |-> "p2", product_name |-> "Mouse", quantity |-> 1, price |-> 5, subtotal |-> 7],
     [product_id |-> "p3", product_name |-> "", quantity |-> 3, price |-> 4, subtotal |-> 12],
     [product_id |-> "p1", product_name |-> "Pad", quantity |-> 1, price |-> 0, subtotal |-> 1] >>

\* An item as a client may also send it: nothing in the JSON binding
\* (domain.OrderItem carries no binding tag) constrains quantity or price.
ZeroQuantityItem ==
  [product_id |-> "p9", product_name |-> "Cable", quantity |-> 0, price |-> 10, subtotal |-> 0]

\* Item lists of requests: the first n catalogue items, n = 0..MaxItems, and
\* a list of one item of quantity 0.
ItemLists == {SubSeq(Catalogue, 1, n) : n \in 0..MaxItems} \cup {<<ZeroQuantityItem>>}

\* The user_id field of a JSON payload: absent, or an identity.
PayloadUsers == {NoUser, "u2"}

\* JSON bodies of POST /orders.  `valid` is whether ShouldBindJSON accepts
\* the body; a body it rejects has no decoded fields.
Bodies ==
  {[valid |-> TRUE, user_id |-> u, items |-> l] : u \in PayloadUsers, l \in ItemLists}
    \cup {[valid |-> FALSE, user_id |-> NoUser, items |-> <<>>]}

(* --------------------------- conversions ------------------------------ *)

Digits == <<"0", "1", "2", "3", "4", "5", "6", "7", "8", "9">>

\* strconv.Itoa on a non-negative int.
RECURSIVE Itoa(_)
Itoa(n) == IF n < 10 THEN Digits[n + 1] ELSE Itoa(n \div 10) \o Digits[(n % 10) + 1]

\* fmt.Sprintf("Product %s", productID)
SprintfProduct(productID) == "Product " \o productID

\* Order ids a path parameter may name: every id the sequence can hand out
\* (the last of them is never stored when it is asked for), and one that is
\* not a number.
IdParams == {Itoa(n) : n \in 1..MaxRequests} \cup {"abc"}

\* PostgreSQL's cast of the text parameter $1 to the integer column `id`:
\* the integer it denotes, or -1 for "invalid input syntax for type integer".
TextToInt(s) ==
  IF \E n \in 0..MaxRequests : Itoa(n) = s
  THEN CHOOSE n \in 0..MaxRequests : Itoa(n) = s
  ELSE -1

(* ------------------------------- state -------------------------------- *)

VARIABLES
  orders,        \* table orders: committed rows, in commit order
  order_items,   \* table order_items: committed rows, in commit order
  idseq,         \* orders_id_seq: the last id handed out
  clock,         \* wall clock read by time.Now()
  txs,           \* per request: its database transaction
  rq,            \* per request: handler and service locals, response
  cartClient,    \* global cartClient is set (TRUE) or nil (FALSE)
  shippingClient \* global shippingClient is set (TRUE) or nil (FALSE)

vars == <<orders, order_items, idseq, clock, txs, rq, cartClient, shippingClient>>

\* The zero value of *domain.Order / no response body.
Nil == [nil |-> TRUE]

NoTx == [state |-> "none", orders |-> <<>>, items |-> <<>>]

IdleReq ==
  [ op        |-> "none",      \* create | list | get | details
    pc        |-> "idle",
    ctxUser   |-> NoUser,      \* c.GetString("user_id")
    body      |-> Nil,         \* handler local `req` of POST /orders
    idParam   |-> "",          \* c.Param("id") / argument id
    newStatus |-> "",          \* argument status of UpdateOrderStatus
    order     |-> Nil,         \* service local `order`
    id        |-> 0,           \* repository local `id` / `idInt`
    idx       |-> 0,           \* items of `order` inserted so far
    err       |-> "nil",       \* error the service call returns
    status    |-> 0,           \* HTTP status written, 0 = none yet
    out       |-> Nil,         \* response body
    svcCalls  |-> 0,           \* calls into OrderService
    dbCalls   |-> 0,           \* statements sent to the store
    cartCalls |-> 0,           \* DELETE /api/v1/cart issued
    cartErr   |-> "nil",       \* error of client.ClearCart, logged only
    cartOut   |-> "none",      \* what the cart service did (history)
    shipCalls |-> 0,           \* GET /api/v1/shipping/orders/:id issued
    shipErr   |-> "nil",       \* error of GetShipmentByOrderID, logged only
    shipOut   |-> "none",      \* what the shipping service did (history)
    scanErrs  |-> 0,           \* rows whose Scan failed and were skipped (history)
    cancelled |-> FALSE,       \* the request's context is cancelled
    cancelPc  |-> "",          \* where the handler was when that happened (history)
    sentUser  |-> NoUser ]     \* user_id of the JSON payload as sent (history)

Init ==
  /\ orders = <<>>
  /\ order_items = <<>>
  /\ idseq = 0
  /\ clock = 0
  /\ txs = [r \in Reqs |-> NoTx]
  /\ rq = [r \in Reqs |-> IdleReq]
  /\ cartClient \in BOOLEAN
  /\ shippingClient \in BOOLEAN

(* ----------------------- request context ------------------------------ *)

\* Mutant of CtxOutcomes: the call does not look at the context.
CtxOutcomes_Ignored(p) == BOOLEAN

\* Outcomes of a call that takes the request's context (a database
\* statement): it succeeds or fails; under a cancelled context it fails.
CtxOutcomes(p) == IF p.cancelled THEN {FALSE} ELSE BOOLEAN

\* The inbound request is cancelled (the client went away) while the
\* handler runs: c.Request.Context() is done from then on.
Cancel(r) ==
  /\ rq[r].pc \notin {"idle", "done"}
  /\ ~rq[r].cancelled
  /\ rq' = [rq EXCEPT ![r].cancelled = TRUE, ![r].cancelPc = rq[r].pc]
  /\ UNCHANGED <<orders, order_items, idseq, clock, txs, cartClient, shippingClient>>

(* ------------------------ service: pure part -------------------------- *)

\* Mutant of ItemSubtotal: the subtotal the client sent is kept.
ItemSubtotal_FromClient(item) == item.subtotal

\* itemSubtotal := item.Price * float64(item.Quantity)
ItemSubtotal(item) == item.price * item.quantity

\* productName := item.ProductName, or "Product <id>" when that is empty.
ProductNameOf(item) ==
  IF item.product_name = "" THEN SprintfProduct(item.product_id) ELSE item.product_name

\* One element of enrichedItems.
EnrichItem(item) ==
  [ product_id   |-> item.product_id,
    product_name |-> ProductNameOf(item),
    quantity     |-> item.quantity,
    price        |-> item.price,
    subtotal     |-> ItemSubtotal(item) ]

\* The loop `for i, item := range req.Items`, from index i on, with the
\* accumulators enrichedItems and subtotal.
RECURSIVE EnrichLoop(_, _, _, _)
EnrichLoop(items, i, enrichedItems, subtotal) ==
  IF i > Len(items)
  THEN [Items |-> enrichedItems, Subtotal |-> subtotal]
  ELSE EnrichLoop(items, i + 1,
                  Append(enrichedItems, EnrichItem(items[i])),
                  subtotal + ItemSubtotal(items[i]))

\* Mutant of OrderTotal: the shipping charge is left out of the total.
OrderTotal_NoShipping(subtotal) == subtotal

\* total of the order under construction
OrderTotal(subtotal) == subtotal + FixedShipping

\* order := &domain.Order{...}; ID and CreatedAt keep their zero values.
NewOrder(req) ==
  LET l == EnrichLoop(req.items, 1, <<>>, 0)
  IN  [ ID        |-> "",
        UserID    |-> req.user_id,
        Status    |-> "pending",
        Items     |-> l.Items,
        Subtotal  |-> l.Subtotal,
        Shipping  |-> FixedShipping,
        Total     |-> OrderTotal(l.Subtotal),
        CreatedAt |-> 0 ]

\* Mutant of IsInvalidOrder: the validation is missing.
IsInvalidOrder_Never(req) == FALSE

\* Business validation: len(req.Items) == 0
IsInvalidOrder(req) == Len(req.items) = 0

(* ------------------------- handler: POST /orders ---------------------- *)

\* Mutant of Authenticated: the identity test is skipped.
Authenticated_Always(userID) == TRUE

\* `if userID == ""`: the context carries an identity.
Authenticated(userID) == userID # NoUser

\* Mutant of InjectUserID: the payload's user_id is kept when it is there.
InjectUserID_PreferPayload(body, userID) ==
  IF body.user_id # "" THEN body ELSE [body EXCEPT !.user_id = userID]

\* req.UserID = userID: the identity of the context replaces the payload's.
InjectUserID(body, userID) == [body EXCEPT !.user_id = userID]

\* Mutant of AfterCreateOrder: the error is only recorded, the handler
\* goes on to the cart clear.
AfterCreateOrder_NoReturn(p, order, err) ==
  [p EXCEPT !.order = order, !.err = err, !.pc = "cart"]

\* The switch on the error of orderService.CreateOrder (handler.go 116-127)
\* and, without error, the move on to the cart clear.
AfterCreateOrder(p, order, err) ==
  IF err = "nil"
  THEN [p EXCEPT !.order = order, !.err = err, !.pc = "cart"]
  ELSE [p EXCEPT !.order = Nil, !.err = err, !.pc = "done",
                 !.status = IF err = "ErrInvalidOrder" THEN 400 ELSE 500,
                 !.out = IF err = "ErrInvalidOrder" THEN [error |-> "Invalid order"]
                                                   ELSE [error |-> "Internal server error"]]

\* OrderHandler.CreateOrder up to the first database call: bind the JSON
\* body, take the identity from the context, call OrderService.CreateOrder,
\* which validates and builds the order.
HandlerCreateOrder(r) ==
  /\ rq[r].pc = "idle"
  /\ \E ctxUser \in {NoUser} \cup Users, body \in Bodies :
       LET p0 == [rq[r] EXCEPT !.op = "create", !.ctxUser = ctxUser, !.body = body,
                               !.sentUser = body.user_id]
       IN
       rq' = [rq EXCEPT ![r] =
         IF ~body.valid
         THEN [p0 EXCEPT !.pc = "done", !.status = 400,
                         !.out = [error |-> "Invalid request"]]
         ELSE IF ~Authenticated(ctxUser)
         THEN [p0 EXCEPT !.pc = "done", !.status = 401,
                         !.out = [error |-> "Authentication required"]]
         ELSE LET req == InjectUserID(body, ctxUser)
                  p1 == [p0 EXCEPT !.body = req, !.svcCalls = @ + 1]
              IN  IF IsInvalidOrder(req)
                  THEN AfterCreateOrder(p1, Nil, "ErrInvalidOrder")
                  ELSE [p1 EXCEPT !.order = NewOrder(req), !.pc = "begin"]]
  /\ UNCHANGED <<orders, order_items, idseq, clock, txs, cartClient, shippingClient>>

(* ------------------ transaction manager and transaction --------------- *)

\* PostgresTransactionManager.Begin: pool.Begin succeeds or fails.
TxBegin(r) ==
  /\ rq[r].op = "create" /\ rq[r].pc = "begin"
  /\ \E ok \in CtxOutcomes(rq[r]) :
       IF ok
       THEN /\ txs' = [txs EXCEPT ![r] = [state |-> "open", orders |-> <<>>, items |-> <<>>]]
            /\ rq' = [rq EXCEPT ![r].pc = "insertOrder", ![r].dbCalls = @ + 1]
       ELSE /\ txs' = txs
            /\ rq' = [rq EXCEPT ![r] =
                 AfterCreateOrder([rq[r] EXCEPT !.dbCalls = @ + 1], Nil, "store")]
  /\ UNCHANGED <<orders, order_items, idseq, clock, cartClient, shippingClient>>

\* What COMMIT does to a transaction: its rows become visible, all at once.
CommitRows(r) ==
  /\ orders' = orders \o txs[r].orders
  /\ order_items' = order_items \o txs[r].items
  /\ txs' = [txs EXCEPT ![r] = [state |-> "committed", orders |-> <<>>, items |-> <<>>]]

\* What ROLLBACK (or the loss of the connection) does: its rows are dropped.
RollbackRows(r) ==
  /\ txs' = [txs EXCEPT ![r] = [state |-> "rolledback", orders |-> <<>>, items |-> <<>>]]
  /\ UNCHANGED <<orders, order_items>>

\* Mutant of TxQueryRow: the order row is inserted on the pool, outside the
\* transaction.
TxQueryRow_OnPool(r, row) ==
  /\ orders' = Append(orders, row)
  /\ UNCHANGED <<order_items, txs>>

\* PostgresTransaction.QueryRow with the INSERT INTO orders: the row is
\* written inside transaction r.
TxQueryRow(r, row) ==
  /\ txs' = [txs EXCEPT ![r].orders = Append(@, row)]
  /\ UNCHANGED <<orders, order_items>>

\* Mutant of TxExec: the statement runs on the pool, outside the transaction.
TxExec_OnPool(r, row) ==
  /\ order_items' = Append(order_items, row)
  /\ UNCHANGED <<orders, txs>>

\* PostgresTransaction.Exec with an INSERT INTO order_items.
TxExec(r, row) ==
  /\ txs' = [txs EXCEPT ![r].items = Append(@, row)]
  /\ UNCHANGED <<orders, order_items>>

(* ------------------ repository: CreateWithTx -------------------------- *)

\* The row INSERT INTO orders (user_id, status, subtotal, shipping, total,
\* created_at) writes for order o, with the id the sequence assigned.
OrderRow(o, id, now) ==
  [ id |-> id, user_id |-> o.UserID, status |-> o.Status,
    subtotal |-> o.Subtotal, shipping |-> o.Shipping,
    total |-> o.Total, created_at |-> now, updated_at |-> now ]

\* The row INSERT INTO order_items (order_id, product_id, product_name,
\* quantity, price, subtotal) writes for one item.
ItemRow(id, item) ==
  [ order_id |-> id, product_id |-> item.product_id,
    product_name |-> item.product_name, quantity |-> item.quantity,
    price |-> item.price, subtotal |-> item.subtotal ]

\* Mutant of Nextval: the id is one more than the number of committed orders.
Nextval_MaxCommitted(seq) == Len(orders) + 1

\* The id the INSERT INTO orders assigns (RETURNING id): the next value of
\* the table's sequence, which no other insert, committed or not, gets.
Nextval(seq) == seq + 1

\* INSERT INTO orders ... RETURNING id, inside the transaction.
CreateWithTxOrder(r) ==
  /\ rq[r].op = "create" /\ rq[r].pc = "insertOrder"
  /\ \E ok \in CtxOutcomes(rq[r]) :
       IF ok
       THEN LET id == Nextval(idseq)
                now == clock + 1
                o == rq[r].order
                row == OrderRow(o, id, now)
            IN  /\ idseq' = id
                /\ clock' = now
                /\ TxQueryRow(r, row)
                /\ rq' = [rq EXCEPT ![r].order.ID = Itoa(id), ![r].id = id, ![r].idx = 0,
                                    ![r].dbCalls = @ + 1,
                                    ![r].pc = IF Len(o.Items) = 0 THEN "commit"
                                              ELSE "insertItem"]
       ELSE /\ rq' = [rq EXCEPT ![r].err = "store", ![r].pc = "deferred",
                                ![r].dbCalls = @ + 1]
            /\ UNCHANGED <<idseq, clock, txs, orders, order_items>>
  /\ UNCHANGED <<cartClient, shippingClient>>

\* One round of `for _, item := range order.Items`: INSERT INTO order_items.
CreateWithTxItem(r) ==
  /\ rq[r].op = "create" /\ rq[r].pc = "insertItem"
  /\ \E ok \in CtxOutcomes(rq[r]) :
       IF ok
       THEN LET o == rq[r].order
                item == o.Items[rq[r].idx + 1]
                row == ItemRow(rq[r].id, item)
            IN  /\ TxExec(r, row)
                /\ rq' = [rq EXCEPT ![r].idx = @ + 1, ![r].dbCalls = @ + 1,
                                    ![r].pc = IF rq[r].idx + 1 = Len(o.Items)
                                              THEN "commit" ELSE "insertItem"]
       ELSE /\ rq' = [rq EXCEPT ![r].err = "store", ![r].pc = "deferred",
                                ![r].dbCalls = @ + 1]
            /\ UNCHANGED <<txs, orders, order_items>>
  /\ UNCHANGED <<idseq, clock, cartClient, shippingClient>>

(* ---------------- service: commit, deferred rollback ------------------ *)

\* tx.Commit(ctx).  A failed COMMIT commits nothing; the driver then closes
\* the transaction at once or leaves that to the Rollback that follows.
TxCommit(r) ==
  /\ rq[r].op = "create" /\ rq[r].pc = "commit"
  /\ \/ /\ TRUE \in CtxOutcomes(rq[r])
        /\ CommitRows(r)
        /\ rq' = [rq EXCEPT ![r].pc = "deferred", ![r].dbCalls = @ + 1]
     \/ /\ \/ RollbackRows(r)
           \/ UNCHANGED <<txs, orders, order_items>>
        /\ rq' = [rq EXCEPT ![r].err = "store", ![r].pc = "deferred",
                            ![r].dbCalls = @ + 1]
  /\ UNCHANGED <<idseq, clock, cartClient, shippingClient>>

\* Mutant of TxRollback: the Rollback also removes rows the transaction has
\* committed.
TxRollback_UndoesCommit(r) ==
  /\ orders' = SelectSeq(orders, LAMBDA row : row.id # rq[r].id)
  /\ order_items' = SelectSeq(order_items, LAMBDA row : row.order_id # rq[r].id)
  /\ txs' = [txs EXCEPT ![r] = [state |-> "rolledback", orders |-> <<>>, items |-> <<>>]]

\* Mutant of TxRollback: the deferred Rollback is missing.
TxRollback_Missing(r) == UNCHANGED <<txs, orders, order_items>>

\* tx.Rollback(ctx): ends an open transaction; on a transaction that is
\* already committed or closed it changes nothing (pgx.ErrTxClosed).
TxRollback(r) ==
  IF txs[r].state = "open" THEN RollbackRows(r) ELSE UNCHANGED <<txs, orders, order_items>>

\* `defer tx.Rollback(ctx)` runs, OrderService.CreateOrder returns to the
\* handler, which maps an error to its status.
DeferredRollback(r) ==
  /\ rq[r].op = "create" /\ rq[r].pc = "deferred"
  /\ TxRollback(r)
  /\ rq' = [rq EXCEPT ![r] =
       AfterCreateOrder([rq[r] EXCEPT !.dbCalls = @ + 1], rq[r].order, rq[r].err)]
  /\ UNCHANGED <<idseq, clock, cartClient, shippingClient>>

(* ------------------------- cart client -------------------------------- *)

\* Outcomes of httpClient.Do on a request built with
\* http.NewRequestWithContext(ctx, ...): under a cancelled context the call
\* returns the context's error, a transport failure.
HttpOutcomes(p, outcomes) ==
  IF p.cancelled THEN {o \in outcomes : o.kind = "transport"} ELSE outcomes

\* Mutant of CartOutcomes: the HTTP client has no timeout and the cart
\* service never answers, so httpClient.Do never returns.
CartOutcomes_NoTimeout == {}

\* What httpClient.Do can give for DELETE /api/v1/cart: a response with a
\* status code, or no response (transport failure, the 3 s client timeout).
CartOutcomes ==
  {[kind |-> "response", code |-> c] : c \in {199, 200, 299, 300, 500}}
    \cup {[kind |-> "transport", code |-> 0], [kind |-> "timeout", code |-> 0]}

\* How the handler's caller would name an outcome (history only).
CartClass(outcome) ==
  IF outcome.kind # "response" THEN outcome.kind
  ELSE IF outcome.code \in 200..299 THEN "2xx" ELSE "non2xx"

\* CartClient.ClearCart: nil, or that it returns an error.
ClearCart(outcome) ==
  IF outcome.kind # "response" THEN "error"
  ELSE IF outcome.code < 200 \/ outcome.code >= 300 THEN "error"
  ELSE "nil"

\* Mutant of CreatedResponse: a failed cart clear fails the request.
CreatedResponse_FailOnCartError(p) ==
  IF p.cartErr # "nil"
  THEN [p EXCEPT !.pc = "done", !.status = 500, !.out = [error |-> "Internal server error"]]
  ELSE [p EXCEPT !.pc = "done", !.status = 201, !.out = p.order]

\* The response of a successful POST /orders.
CreatedResponse(p) == [p EXCEPT !.pc = "done", !.status = 201, !.out = p.order]

\* handler.go 129-141: best-effort cart clear, then 201 with the order.
HandlerClearCart(r) ==
  /\ rq[r].op = "create" /\ rq[r].pc = "cart"
  /\ IF cartClient
     THEN \E outcome \in HttpOutcomes(rq[r], CartOutcomes) :
            rq' = [rq EXCEPT ![r] =
              CreatedResponse([rq[r] EXCEPT !.cartCalls = @ + 1,
                                            !.cartErr = ClearCart(outcome),
                                            !.cartOut = CartClass(outcome)])]
     ELSE rq' = [rq EXCEPT ![r] = CreatedResponse(rq[r])]
  /\ UNCHANGED <<orders, order_items, idseq, clock, txs, cartClient, shippingClient>>

(* ------------------- repository: reads (pool, no tx) ------------------ *)

\* rows.Scan into a domain.OrderItem
ScanItem(row) ==
  [ product_id |-> row.product_id, product_name |-> row.product_name,
    quantity |-> row.quantity, price |-> row.price, subtotal |-> row.subtotal ]

\* The rows of a result set whose rows.Scan returns an error (a NULL or a
\* value that does not decode into the Go field): any of them may.
ScanFailures(rows) == SUBSET (1..Len(rows))

\* The for rows.Next() loop of FindByID from row i on: a row whose Scan
\* fails (i \in bad) is skipped by `continue`, the others are appended
\* (order.Items = append(order.Items, item)).
RECURSIVE ScanItems(_, _, _, _)
ScanItems(rows, i, items, bad) ==
  IF i > Len(rows) THEN items
  ELSE IF i \in bad THEN ScanItems(rows, i + 1, items, bad)
  ELSE ScanItems(rows, i + 1, Append(items, ScanItem(rows[i])), bad)

\* Scan of an orders row into a domain.Order; order.ID = strconv.Itoa(idInt).
ScanOrder(row) ==
  [ ID        |-> Itoa(row.id),
    UserID    |-> row.user_id,
    Status    |-> row.status,
    Items     |-> <<>>,
    Subtotal  |-> row.subtotal,
    Shipping  |-> row.shipping,
    Total     |-> row.total,
    CreatedAt |-> row.created_at ]

\* OrderService.GetOrder's translation of the repository's error.
GetOrderErr(err) == IF err = "ErrNotFound" THEN "ErrOrderNotFound" ELSE err

\* The switch on GetOrder's error in OrderHandler.GetOrder and in
\* GetOrderDetails (the same in both).
GetOrderFailed(p, err) ==
  [p EXCEPT !.order = Nil, !.err = err, !.pc = "done",
            !.status = IF err = "ErrOrderNotFound" THEN 404 ELSE 500,
            !.out = IF err = "ErrOrderNotFound" THEN [error |-> "Order not found"]
                                                ELSE [error |-> "Internal server error"]]

\* OrderHandler.GetOrder / GetOrderDetails up to the first query.
HandlerGetOrder(r) ==
  /\ rq[r].pc = "idle"
  /\ \E op \in {"get", "details"}, id \in IdParams :
       rq' = [rq EXCEPT ![r] = [rq[r] EXCEPT !.op = op, !.idParam = id,
                                             !.svcCalls = @ + 1, !.pc = "findOrder"]]
  /\ UNCHANGED <<orders, order_items, idseq, clock, txs, cartClient, shippingClient>>

\* FindByID, first query: SELECT ... FROM orders WHERE id = $1.  The query
\* fails when the store does ("store": no connection, timeout, ...), and
\* always when $1 is not an integer ("invalidText": PostgreSQL's
\* invalid_text_representation).  Both reach the service as raw errors.
FindByIDOrder(r) ==
  /\ rq[r].op \in {"get", "details"} /\ rq[r].pc = "findOrder"
  /\ LET key == TextToInt(rq[r].idParam)
         rows == SelectSeq(orders, LAMBDA row : row.id = key)
         p == [rq[r] EXCEPT !.dbCalls = @ + 1]
     IN  \E ok \in CtxOutcomes(rq[r]) :
           rq' = [rq EXCEPT ![r] =
             IF key = -1 THEN GetOrderFailed(p, GetOrderErr("invalidText"))
             ELSE IF ~ok THEN GetOrderFailed(p, GetOrderErr("store"))
             ELSE IF rows = <<>> THEN GetOrderFailed(p, GetOrderErr("ErrNotFound"))
             ELSE [p EXCEPT !.order = ScanOrder(rows[1]), !.id = rows[1].id,
                            !.pc = "findItems"]]
  /\ UNCHANGED <<orders, order_items, idseq, clock, txs, cartClient, shippingClient>>

\* FindByID, second query: SELECT ... FROM order_items WHERE order_id = $1,
\* then the return through GetOrder to the handler.
FindByIDItems(r) ==
  /\ rq[r].op \in {"get", "details"} /\ rq[r].pc = "findItems"
  /\ LET rows == SelectSeq(order_items, LAMBDA row : row.order_id = rq[r].id)
     IN  \E ok \in CtxOutcomes(rq[r]), bad \in ScanFailures(rows) :
           LET p == [rq[r] EXCEPT !.dbCalls = @ + 1,
                                  !.scanErrs = IF ok THEN Cardinality(bad) ELSE 0]
               order == [rq[r].order EXCEPT !.Items = ScanItems(rows, 1, <<>>, bad)]
           IN
           rq' = [rq EXCEPT ![r] =
             IF ~ok THEN GetOrderFailed(p, GetOrderErr("store"))
             ELSE IF p.op = "get"
             THEN [p EXCEPT !.order = order, !.pc = "done", !.status = 200, !.out = order]
             ELSE [p EXCEPT !.order = order, !.pc = "shipment"]]
  /\ UNCHANGED <<orders, order_items, idseq, clock, txs, cartClient, shippingClient>>

(* ------------------------- shipping client ---------------------------- *)

\* What httpClient.Do can give for GET /api/v1/shipping/orders/:id: a
\* response (status code, and for 200 a body that decodes or not), a
\* transport failure, or the 5 s client timeout.
ShipOutcomes ==
  {[kind |-> "response", code |-> 200, decodes |-> d] : d \in BOOLEAN}
    \cup {[kind |-> "response", code |-> c, decodes |-> FALSE] : c \in {204, 404, 500}}
    \cup {[kind |-> k, code |-> 0, decodes |-> FALSE] : k \in {"transport", "timeout"}}

\* How the handler's caller would name an outcome (history only).
ShipClass(outcome) ==
  IF outcome.kind # "response" THEN outcome.kind
  ELSE IF outcome.code = 404 THEN "404"
  ELSE IF outcome.code # 200 THEN "status"
  ELSE IF outcome.decodes THEN "shipment" ELSE "undecodable"

\* The shipment a 200 response with a well-formed body decodes to.
ShipmentOf(orderID) == [order_id |-> orderID, status |-> "in_transit"]

\* ShippingClient.GetShipmentByOrderID: (shipment or nil, error or nil)
GetShipmentByOrderID(orderID, outcome) ==
  IF outcome.kind # "response"
  THEN [shipment |-> Nil, err |-> "shipping service call failed"]
  ELSE IF outcome.code = 404
  THEN [shipment |-> Nil, err |-> "nil"]
  ELSE IF outcome.code # 200
  THEN [shipment |-> Nil, err |-> "shipping service returned status"]
  ELSE IF ~outcome.decodes
  THEN [shipment |-> Nil, err |-> "failed to decode shipment response"]
  ELSE [shipment |-> ShipmentOf(orderID), err |-> "nil"]

\* Mutant of DetailsResponse: a failed shipment lookup fails the request.
DetailsResponse_FailOnError(p, shipment) ==
  IF p.shipErr # "nil"
  THEN [p EXCEPT !.pc = "done", !.status = 502, !.out = [error |-> "Bad gateway"]]
  ELSE [p EXCEPT !.pc = "done", !.status = 200,
                 !.out = [order |-> p.order, shipment |-> shipment]]

\* OrderDetailsResponse and the 200 that carries it.
DetailsResponse(p, shipment) ==
  [p EXCEPT !.pc = "done", !.status = 200,
            !.out = [order |-> p.order, shipment |-> shipment]]

\* GetOrderDetails after the order is there (aggregation.go 129-158).
HandlerShipment(r) ==
  /\ rq[r].op = "details" /\ rq[r].pc = "shipment"
  /\ IF shippingClient
     THEN \E outcome \in HttpOutcomes(rq[r], ShipOutcomes) :
            LET res == GetShipmentByOrderID(rq[r].idParam, outcome)
            IN  rq' = [rq EXCEPT ![r] =
                  DetailsResponse([rq[r] EXCEPT !.shipCalls = @ + 1, !.shipErr = res.err,
                                                !.shipOut = ShipClass(outcome)],
                                  res.shipment)]
     ELSE rq' = [rq EXCEPT ![r] = DetailsResponse(rq[r], Nil)]
  /\ UNCHANGED <<orders, order_items, idseq, clock, txs, cartClient, shippingClient>>

(* --------------------------- GET /orders ------------------------------ *)

\* OrderHandler.ListOrders up to the query.
HandlerListOrders(r) ==
  /\ rq[r].pc = "idle"
  /\ \E ctxUser \in {NoUser} \cup Users :
       LET p0 == [rq[r] EXCEPT !.op = "list", !.ctxUser = ctxUser]
       IN  rq' = [rq EXCEPT ![r] =
             IF ~Authenticated(ctxUser)
             THEN [p0 EXCEPT !.pc = "done", !.status = 401,
                             !.out = [error |-> "Authentication required"]]
             ELSE [p0 EXCEPT !.svcCalls = @ + 1, !.pc = "findByUser"]]
  /\ UNCHANGED <<orders, order_items, idseq, clock, txs, cartClient, shippingClient>>

\* Mutant of NewerFirst: the ordering is ascending.
NewerFirst_Ascending(x, y) == x.created_at < y.created_at

\* x comes before y under ORDER BY created_at DESC
NewerFirst(x, y) == x.created_at > y.created_at

\* ORDER BY created_at DESC (insertion sort; rows of equal created_at stay
\* in table order).
RECURSIVE OrderByCreatedAtDesc(_)
OrderByCreatedAtDesc(rows) ==
  IF rows = <<>> THEN <<>>
  ELSE LET rest == OrderByCreatedAtDesc(Tail(rows))
           x == Head(rows)
           k == Cardinality({i \in 1..Len(rest) : NewerFirst(rest[i], x)})
       IN  SubSeq(rest, 1, k) \o <<x>> \o SubSeq(rest, k + 1, Len(rest))

\* The for rows.Next() loop of FindByUserID from row i on: a row whose Scan
\* fails (i \in bad) is skipped by `continue`, the others are appended
\* (orders = append(orders, order)).
RECURSIVE ScanOrders(_, _, _, _)
ScanOrders(rows, i, acc, bad) ==
  IF i > Len(rows) THEN acc
  ELSE IF i \in bad THEN ScanOrders(rows, i + 1, acc, bad)
  ELSE ScanOrders(rows, i + 1, Append(acc, ScanOrder(rows[i])), bad)

\* FindByUserID: SELECT ... WHERE user_id = $1 ORDER BY created_at DESC, and
\* the return through ListOrders to the handler.
FindByUserID(r) ==
  /\ rq[r].op = "list" /\ rq[r].pc = "findByUser"
  /\ LET rows == OrderByCreatedAtDesc(
                   SelectSeq(orders, LAMBDA row : row.user_id = rq[r].ctxUser))
     IN  \E ok \in CtxOutcomes(rq[r]), bad \in ScanFailures(rows) :
           LET p == [rq[r] EXCEPT !.dbCalls = @ + 1, !.pc = "done",
                                  !.scanErrs = IF ok THEN Cardinality(bad) ELSE 0]
           IN
           rq' = [rq EXCEPT ![r] =
             IF ok
             THEN [p EXCEPT !.status = 200, !.out = ScanOrders(rows, 1, <<>>, bad)]
             ELSE [p EXCEPT !.err = "store", !.status = 500,
                            !.out = [error |-> "Internal server error"]]]
  /\ UNCHANGED <<orders, order_items, idseq, clock, txs, cartClient, shippingClient>>

(* --------------------- service: UpdateOrderStatus --------------------- *)

\* Status values callers pass; none is checked against the current status.
Statuses == {"pending", "shipped"}

\* A caller of OrderService.UpdateOrderStatus (no handler of this
\* repository routes to it).
CallUpdateOrderStatus(r) ==
  /\ rq[r].pc = "idle"
  /\ \E id \in IdParams, st \in Statuses :
       rq' = [rq EXCEPT ![r] = [rq[r] EXCEPT !.op = "update", !.idParam = id,
                                             !.newStatus = st, !.svcCalls = @ + 1,
                                             !.pc = "updateStatus"]]
  /\ UNCHANGED <<orders, order_items, idseq, clock, txs, cartClient, shippingClient>>

\* Mutant of UpdateRows: the WHERE clause is missing, every row is updated.
UpdateRows_AllRows(key, st) ==
  [i \in 1..Len(orders) |-> [orders[i] EXCEPT !.status = st, !.updated_at = clock]]

\* UPDATE orders SET status = $1, updated_at = NOW() WHERE id = $2
UpdateRows(key, st) ==
  [i \in 1..Len(orders) |->
     IF orders[i].id = key
     THEN [orders[i] EXCEPT !.status = st, !.updated_at = clock]
     ELSE orders[i]]

\* OrderService.UpdateOrderStatus's translation of the repository's error.
UpdateStatusErr(err) == IF err = "ErrNotFound" THEN "ErrOrderNotFound" ELSE err

\* PostgresOrderRepository.UpdateStatus and the return to the caller.
UpdateStatus(r) ==
  /\ rq[r].op = "update" /\ rq[r].pc = "updateStatus"
  /\ LET key == TextToInt(rq[r].idParam)
         found == \E i \in 1..Len(orders) : orders[i].id = key
         p == [rq[r] EXCEPT !.dbCalls = @ + 1, !.pc = "done"]
     IN  \E ok \in CtxOutcomes(rq[r]) :
           IF key = -1
           THEN /\ rq' = [rq EXCEPT ![r] = [p EXCEPT !.err = UpdateStatusErr("invalidText")]]
                /\ orders' = orders
           ELSE IF ~ok
           THEN /\ rq' = [rq EXCEPT ![r] = [p EXCEPT !.err = UpdateStatusErr("store")]]
                /\ orders' = orders
           ELSE IF ~found
           THEN /\ rq' = [rq EXCEPT ![r] = [p EXCEPT !.err = UpdateStatusErr("ErrNotFound")]]
                /\ orders' = orders
           ELSE /\ rq' = [rq EXCEPT ![r] = p]
                /\ orders' = UpdateRows(key, rq[r].newStatus)
  /\ UNCHANGED <<order_items, idseq, clock, txs, cartClient, shippingClient>>

Next ==
  \E r \in Reqs :
    \/ HandlerCreateOrder(r)
    \/ TxBegin(r)
    \/ CreateWithTxOrder(r)
    \/ CreateWithTxItem(r)
    \/ TxCommit(r)
    \/ DeferredRollback(r)
    \/ HandlerClearCart(r)
    \/ HandlerGetOrder(r)
    \/ FindByIDOrder(r)
    \/ FindByIDItems(r)
    \/ HandlerShipment(r)
    \/ HandlerListOrders(r)
    \/ FindByUserID(r)
    \/ CallUpdateOrderStatus(r)
    \/ UpdateStatus(r)

Spec == Init /\ [][Next]_vars

(* ------------- a store that already holds committed orders ------------ *)

\* create_order calls that committed before the requests of the behaviour
\* arrive, in commit order: two of one user; the other user has no order
\* until a request creates one.
StockedRequests ==
  << [user_id |-> "u1", items |-> SubSeq(Catalogue, 1, 2)],
     [user_id |-> "u1", items |-> SubSeq(Catalogue, 2, 2)] >>

\* The item rows the first n of these calls committed.
RECURSIVE StockedItemRows(_)
StockedItemRows(n) ==
  IF n = 0 THEN <<>>
  ELSE LET items == NewOrder(StockedRequests[n]).Items
       IN  StockedItemRows(n - 1) \o [k \in 1..Len(items) |-> ItemRow(n, items[k])]

\* The state these calls leave: the i-th got id i at time i.
InitStocked ==
  /\ orders = [i \in 1..Len(StockedRequests) |-> OrderRow(NewOrder(StockedRequests[i]), i, i)]
  /\ order_items = StockedItemRows(Len(StockedRequests))
  /\ idseq = Len(StockedRequests)
  /\ clock = Len(StockedRequests)
  /\ txs = [r \in Reqs |-> NoTx]
  /\ rq = [r \in Reqs |-> IdleReq]
  /\ cartClient \in BOOLEAN
  /\ shippingClient \in BOOLEAN

SpecStocked == InitStocked /\ [][Next]_vars

(* ------------- repository: Create (pool, no transaction) -------------- *)

\* A caller of PostgresOrderRepository.Create (no code of this repository
\* calls it): it begins a transaction with the TransactionManager, as
\* CreateOrder does, and hands Create an order; Create has no transaction
\* parameter.
CallCreate(r) ==
  /\ rq[r].pc = "idle"
  /\ \E u \in Users, n \in 1..MaxItems, ok \in BOOLEAN :
       LET req == [valid |-> TRUE, user_id |-> u, items |-> SubSeq(Catalogue, 1, n)]
           p == [rq[r] EXCEPT !.op = "repoCreate", !.ctxUser = u, !.body = req,
                              !.dbCalls = @ + 1]
       IN  IF ok
           THEN /\ txs' = [txs EXCEPT ![r] = [state |-> "open", orders |-> <<>>, items |-> <<>>]]
                /\ rq' = [rq EXCEPT ![r] = [p EXCEPT !.order = NewOrder(req),
                                                     !.pc = "poolInsertOrder"]]
           ELSE /\ txs' = txs
                /\ rq' = [rq EXCEPT ![r] = [p EXCEPT !.err = "store", !.pc = "done"]]
  /\ UNCHANGED <<orders, order_items, idseq, clock, cartClient, shippingClient>>

\* Create: r.pool.QueryRow with the INSERT INTO orders ... RETURNING id.  The
\* statement runs on a connection of the pool, in its own implicit
\* transaction: the row is committed when the statement returns.
CreateOrderRow(r) ==
  /\ rq[r].op = "repoCreate" /\ rq[r].pc = "poolInsertOrder"
  /\ \E ok \in CtxOutcomes(rq[r]) :
       IF ok
       THEN LET id == Nextval(idseq)
                now == clock + 1
                o == rq[r].order
            IN  /\ idseq' = id
                /\ clock' = now
                /\ orders' = Append(orders, OrderRow(o, id, now))
                /\ rq' = [rq EXCEPT ![r].order.ID = Itoa(id), ![r].id = id, ![r].idx = 0,
                                    ![r].dbCalls = @ + 1,
                                    ![r].pc = IF Len(o.Items) = 0 THEN "callerEnd"
                                              ELSE "poolInsertItem"]
       ELSE /\ rq' = [rq EXCEPT ![r].err = "store", ![r].pc = "callerEnd",
                                ![r].dbCalls = @ + 1]
            /\ UNCHANGED <<idseq, clock, orders>>
  /\ UNCHANGED <<order_items, txs, cartClient, shippingClient>>

\* Create: one round of the item loop, r.pool.Exec with the INSERT INTO
\* order_items, committed when the statement returns.
CreateItemRow(r) ==
  /\ rq[r].op = "repoCreate" /\ rq[r].pc = "poolInsertItem"
  /\ \E ok \in CtxOutcomes(rq[r]) :
       IF ok
       THEN LET o == rq[r].order
                item == o.Items[rq[r].idx + 1]
            IN  /\ order_items' = Append(order_items, ItemRow(rq[r].id, item))
                /\ rq' = [rq EXCEPT ![r].idx = @ + 1, ![r].dbCalls = @ + 1,
                                    ![r].pc = IF rq[r].idx + 1 = Len(o.Items)
                                              THEN "callerEnd" ELSE "poolInsertItem"]
       ELSE /\ rq' = [rq EXCEPT ![r].err = "store", ![r].pc = "callerEnd",
                                ![r].dbCalls = @ + 1]
            /\ UNCHANGED order_items
  /\ UNCHANGED <<orders, idseq, clock, txs, cartClient, shippingClient>>

\* Create has returned: its caller commits its transaction when Create
\* returned nil and rolls it back when Create returned an error.
CallerEnd(r) ==
  /\ rq[r].op = "repoCreate" /\ rq[r].pc = "callerEnd"
  /\ IF rq[r].err = "nil" THEN CommitRows(r) ELSE TxRollback(r)
  /\ rq' = [rq EXCEPT ![r].pc = "done", ![r].dbCalls = @ + 1]
  /\ UNCHANGED <<idseq, clock, cartClient, shippingClient>>

NextStore ==
  \/ Next
  \/ \E r \in Reqs : CallCreate(r) \/ CreateOrderRow(r) \/ CreateItemRow(r) \/ CallerEnd(r)

SpecStore == Init /\ [][NextStore]_vars

(* ---------------------- requests that are cancelled ------------------- *)

NextCancel == Next \/ \E r \in Reqs : Cancel(r)

SpecCancel == Init /\ [][NextCancel]_vars

(* ====================================================================== *)
(*                              Properties                                *)
(* ====================================================================== *)

\* Ids of order rows and order_id of item rows that a read can see.
VisibleIds ==
  {orders[i].id : i \in 1..Len(orders)} \cup {order_items[i].order_id : i \in 1..Len(order_items)}

\* Order ids (as strings) that request q has obtained from a read.
HeldIds(q) ==
  IF rq[q].op \in {"get", "details"} /\ rq[q].order # Nil THEN {rq[q].order.ID}
  ELSE IF rq[q].op = "list" /\ rq[q].status = 200
  THEN {rq[q].out[i].ID : i \in 1..Len(rq[q].out)}
  ELSE {}

\* C1 (atomic creation): a create_order whose order row was inserted and
\* that did not commit (a later item insert failed, or the commit failed)
\* returns an error (the handler answers 500), and at no moment, whatever
\* the other requests do, is its order row or any of its item rows in the
\* committed tables or in the result of a get_order or list_orders.
C1_AtomicCreation ==
  \A r \in Reqs :
    (rq[r].op = "create" /\ rq[r].id # 0 /\ txs[r].state # "committed") =>
      /\ rq[r].id \notin VisibleIds
      /\ \A q \in Reqs : Itoa(rq[r].id) \notin HeldIds(q)
      /\ rq[r].pc \in {"cart", "done"} =>
           (rq[r].err = "store" /\ rq[r].pc = "done" /\ rq[r].status = 500
              /\ rq[r].out = [error |-> "Internal server error"])

\* C1 witness: a create_order that inserted its order row and an item row,
\* then failed, has returned, while another request has read the store.
C1_Witness ==
  \E r, q \in Reqs :
    /\ rq[r].op = "create" /\ rq[r].pc = "done" /\ rq[r].err = "store"
    /\ rq[r].id # 0 /\ rq[r].idx >= 1 /\ txs[r].state = "rolledback"
    /\ rq[q].op \in {"get", "list"} /\ rq[q].pc = "done" /\ rq[q].dbCalls > 0

\* Sum over a list of items of price * quantity.
RECURSIVE SumPriceQuantity(_)
SumPriceQuantity(items) ==
  IF items = <<>> THEN 0
  ELSE Head(items).price * Head(items).quantity + SumPriceQuantity(Tail(items))

\* C2 (amounts): the order create_order returns for a non-empty item list
\* has one item per requested item with subtotal = price * quantity of the
\* request, subtotal = the sum of price * quantity over the requested
\* items, shipping = 5 and total = subtotal + 5.
C2_Amounts ==
  \A r \in Reqs :
    (rq[r].op = "create" /\ rq[r].pc \in {"cart", "done"} /\ rq[r].err = "nil"
       /\ rq[r].svcCalls > 0) =>
      LET o == rq[r].order
          sent == rq[r].body.items
      IN  /\ Len(sent) > 0
          /\ Len(o.Items) = Len(sent)
          /\ \A i \in 1..Len(sent) :
               /\ o.Items[i].price = sent[i].price
               /\ o.Items[i].quantity = sent[i].quantity
               /\ o.Items[i].subtotal = sent[i].price * sent[i].quantity
          /\ o.Subtotal = SumPriceQuantity(sent)
          /\ o.Shipping = 5
          /\ o.Total = o.Subtotal + 5
          /\ rq[r].pc = "done" => (rq[r].status = 201 /\ rq[r].out = o)

\* C2 witness: a created order with more than one item, one of which came
\* with a client-asserted subtotal different from price * quantity.
C2_Witness ==
  \E r \in Reqs :
    /\ rq[r].op = "create" /\ rq[r].status = 201
    /\ Len(rq[r].out.Items) >= 2
    /\ \E i \in 1..Len(rq[r].body.items) :
         rq[r].body.items[i].subtotal # rq[r].out.Items[i].subtotal

\* A POST /orders whose handler called create_order with no items.
EmptyItemsCall(p) == p.op = "create" /\ p.svcCalls > 0 /\ p.body.items = <<>>

\* C3 (empty item list): in every step, a request that has called
\* create_order with an empty item list has failed with InvalidOrder and
\* been answered 400, has begun no transaction, sent no statement to the
\* store and not attempted the cart clear; the step in which it does so
\* leaves the tables, the id sequence and every transaction unchanged.
C3_EmptyItems ==
  [][\A r \in Reqs :
       EmptyItemsCall(rq'[r]) =>
         /\ rq'[r].pc = "done"
         /\ rq'[r].err = "ErrInvalidOrder"
         /\ rq'[r].status = 400
         /\ rq'[r].out = [error |-> "Invalid order"]
         /\ rq'[r].dbCalls = 0 /\ rq'[r].id = 0
         /\ rq'[r].cartCalls = 0
         /\ txs'[r] = NoTx
         /\ (rq'[r] # rq[r] => UNCHANGED <<orders, order_items, idseq, txs>>)]_vars

\* C3 witness: such a request has been answered.
C3_Witness ==
  \E r \in Reqs : EmptyItemsCall(rq[r]) /\ rq[r].pc = "done" /\ rq[r].status = 400

\* Items of order id as FindByID reads them from the committed table.
StoredItems(id) ==
  ScanItems(SelectSeq(order_items, LAMBDA row : row.order_id = id), 1, <<>>, {})

\* C4 (aggregation resilience): a details request whose order was found is
\* answered 200 with that order, whatever the shipment lookup did; the
\* order part carries the stored order's id, owner and amounts, and its
\* items as get_order read them (all of them when every row scanned); the
\* shipment is absent when the lookup answered 404 or another non-200
\* status, failed at the transport level, timed out, returned a body that
\* does not decode, or was not made (no shipping client).
C4_AggregationResilience ==
  \A r \in Reqs :
    (rq[r].op = "details" /\ rq[r].pc = "done" /\ rq[r].order # Nil) =>
      /\ rq[r].status = 200
      /\ rq[r].out.order = rq[r].order
      /\ \E i \in 1..Len(orders) :
           /\ Itoa(orders[i].id) = rq[r].out.order.ID
           /\ rq[r].out.order.ID = rq[r].idParam
           /\ rq[r].out.order.UserID = orders[i].user_id
           /\ rq[r].out.order.Subtotal = orders[i].subtotal
           /\ rq[r].out.order.Total = orders[i].total
           /\ rq[r].scanErrs = 0 => rq[r].out.order.Items = StoredItems(orders[i].id)
      /\ rq[r].shipOut \in {"none", "404", "status", "transport", "timeout", "undecodable"}
           => rq[r].out.shipment = Nil
      /\ rq[r].shipOut = "shipment" => rq[r].out.shipment = ShipmentOf(rq[r].idParam)
      /\ rq[r].shipOut = "none" <=> ~shippingClient

\* C4 witness: a details request for an existing order whose shipment
\* lookup timed out has been answered.
C4_Witness ==
  \E r \in Reqs :
    /\ rq[r].op = "details" /\ rq[r].pc = "done" /\ rq[r].shipCalls = 1
    /\ rq[r].shipOut = "timeout" /\ rq[r].shipErr # "nil"
    /\ Len(rq[r].out.order.Items) > 0

\* C5 (best-effort cart clear): once create_order has committed, the order
\* row and all its item rows are in the store and stay there, and the
\* request is answered 201 with the created order whatever the cart clear
\* did (success, non-2xx, transport failure, timeout, no client).
C5_BestEffortCartClear ==
  \A r \in Reqs :
    (rq[r].op = "create" /\ txs[r].state = "committed") =>
      /\ \E i \in 1..Len(orders) :
           /\ orders[i].id = rq[r].id
           /\ orders[i].user_id = rq[r].order.UserID
           /\ orders[i].total = rq[r].order.Total
      /\ StoredItems(rq[r].id) = rq[r].order.Items
      /\ rq[r].pc = "done" =>
           /\ rq[r].status = 201
           /\ rq[r].out = rq[r].order
           /\ rq[r].out.ID = Itoa(rq[r].id)
           /\ rq[r].cartOut \in {"none", "2xx", "non2xx", "transport", "timeout"}
           /\ rq[r].cartOut = "none" <=> ~cartClient

\* C5 witness: a committed create whose cart clear failed has been answered.
C5_Witness ==
  \E r \in Reqs :
    /\ rq[r].op = "create" /\ rq[r].pc = "done" /\ txs[r].state = "committed"
    /\ rq[r].cartCalls = 1 /\ rq[r].cartOut = "transport" /\ rq[r].cartErr # "nil"

\* C6 (two-phase ordering): a step issues the cart-clear call of a request
\* only if that request has issued none before and its transaction is
\* committed; a request answered 400, 401 or 500 has issued none.
C6_TwoPhaseOrdering ==
  [][\A r \in Reqs :
       /\ rq'[r].cartCalls # rq[r].cartCalls =>
            /\ rq[r].cartCalls = 0 /\ rq'[r].cartCalls = 1
            /\ txs[r].state = "committed" /\ txs'[r].state = "committed"
            /\ rq[r].op = "create" /\ rq[r].err = "nil"
       /\ rq'[r].status \in {400, 401, 500} => rq'[r].cartCalls = 0]_vars

\* C6 witness: the cart clear was called after a commit.
C6_Witness ==
  \E r \in Reqs : rq[r].cartCalls = 1 /\ txs[r].state = "committed" /\ rq[r].status = 201

\* Order rows request r has written, committed or still inside its transaction.
RowsWrittenBy(r) ==
  {orders[i] : i \in {j \in 1..Len(orders) : orders[j].id = rq[r].id}}
    \cup {txs[r].orders[i] : i \in 1..Len(txs[r].orders)}

\* C7 (identity injection): every order row written through POST /orders
\* carries the user_id bound to the request's context, and so does the
\* order handed to the service and returned; two requests with the same
\* context identity and the same items, whatever the user_id fields of
\* their payloads, write rows with the same user_id.
C7_IdentityInjection ==
  /\ \A r \in Reqs :
       (rq[r].op = "create" /\ rq[r].svcCalls > 0) =>
         /\ rq[r].ctxUser \in Users
         /\ rq[r].body.user_id = rq[r].ctxUser
         /\ rq[r].order # Nil => rq[r].order.UserID = rq[r].ctxUser
         /\ \A row \in RowsWrittenBy(r) : row.user_id = rq[r].ctxUser
  /\ \A r1, r2 \in Reqs :
       (rq[r1].op = "create" /\ rq[r2].op = "create"
          /\ rq[r1].ctxUser = rq[r2].ctxUser /\ rq[r1].body.items = rq[r2].body.items) =>
         \A row1 \in RowsWrittenBy(r1), row2 \in RowsWrittenBy(r2) :
           row1.user_id = row2.user_id

\* C7 witness: two committed orders of requests of the same identity and
\* items whose payloads named different users, one of them another user.
C7_Witness ==
  \E r1, r2 \in Reqs :
    /\ rq[r1].op = "create" /\ rq[r2].op = "create"
    /\ txs[r1].state = "committed" /\ txs[r2].state = "committed"
    /\ rq[r1].ctxUser = rq[r2].ctxUser /\ rq[r1].body.items = rq[r2].body.items
    /\ rq[r1].sentUser # rq[r2].sentUser
    /\ rq[r1].sentUser \in Users /\ rq[r1].sentUser # rq[r1].ctxUser

\* A GET /orders or POST /orders whose context carries no user_id.
NoIdentity(r) == rq[r].op \in {"list", "create"} /\ rq[r].ctxUser = NoUser

\* C8 as claimed: every GET /orders and POST /orders request without
\* identity is answered 401, whatever its body, with no service call and no
\* store access.
C8_Claimed ==
  \A r \in Reqs :
    NoIdentity(r) =>
      /\ rq[r].pc = "done" /\ rq[r].status = 401
      /\ rq[r].svcCalls = 0 /\ rq[r].dbCalls = 0

\* C8 (missing identity): a GET /orders or POST /orders request without
\* identity causes no service call and no store access and is answered 401,
\* except that a POST /orders whose body does not bind is answered 400
\* before the identity is looked at; every request that reaches the service
\* does so under the identity of its context, never under the payload's.
C8_MissingIdentity ==
  /\ \A r \in Reqs :
       NoIdentity(r) =>
         /\ rq[r].pc = "done"
         /\ rq[r].status = IF rq[r].op = "create" /\ ~rq[r].body.valid THEN 400 ELSE 401
         /\ rq[r].svcCalls = 0 /\ rq[r].dbCalls = 0
         /\ txs[r] = NoTx /\ rq[r].order = Nil /\ rq[r].cartCalls = 0
  /\ \A r \in Reqs :
       (rq[r].op \in {"list", "create"} /\ rq[r].svcCalls > 0) =>
         /\ rq[r].ctxUser \in Users
         /\ rq[r].op = "create" => rq[r].body.user_id = rq[r].ctxUser

\* C8 witness: a POST /orders without identity whose payload names a user
\* and binds has been answered 401.
C8_Witness ==
  \E r \in Reqs :
    /\ NoIdentity(r) /\ rq[r].op = "create" /\ rq[r].body.valid
    /\ rq[r].sentUser \in Users /\ rq[r].status = 401

\* The id of a by-id request designates no stored order.
DesignatesNoOrder(r) ==
  \A i \in 1..Len(orders) : orders[i].id # TextToInt(rq[r].idParam)

\* C9 as claimed, for a store that is up: get_order on an id that
\* designates no stored order returns OrderNotFound, never a raw store
\* error; both by-id endpoints answer 404, and the details endpoint makes
\* no shipment lookup and gives no partial response.
C9_Claimed ==
  \A r \in Reqs :
    (rq[r].op \in {"get", "details"} /\ rq[r].pc = "done" /\ DesignatesNoOrder(r)
       /\ rq[r].err # "store") =>
      /\ rq[r].err = "ErrOrderNotFound"
      /\ rq[r].status = 404
      /\ rq[r].shipCalls = 0
      /\ rq[r].out = [error |-> "Order not found"]

\* C10 (scoped transaction): when create_order has returned after a
\* successful Begin, its transaction is committed or rolled back, never
\* open: committed exactly when it returns no error, rolled back when an
\* insert or the commit failed.  Commit is reached only with no error, the
\* order row and every item row inserted, and a transaction is committed
\* only with all of them.
C10_ScopedTransaction ==
  \A r \in Reqs :
    rq[r].op = "create" =>
      /\ (rq[r].pc \in {"cart", "done"} /\ txs[r].state # "none") =>
           /\ txs[r].state \in {"committed", "rolledback"}
           /\ txs[r].state = "committed" <=> rq[r].err = "nil"
           /\ txs[r].state = "rolledback" <=> rq[r].err = "store"
      /\ rq[r].pc = "commit" =>
           /\ rq[r].err = "nil" /\ txs[r].state = "open"
           /\ Len(txs[r].orders) = 1
           /\ rq[r].idx = Len(rq[r].order.Items)
           /\ Len(txs[r].items) = Len(rq[r].order.Items)
      /\ txs[r].state = "committed" =>
           (rq[r].idx = Len(rq[r].order.Items) /\ rq[r].id # 0)
      /\ txs[r].state = "none" => rq[r].pc \notin {"insertOrder", "insertItem", "commit", "deferred", "cart"}

\* C10 witness: a create_order whose Commit failed after every insert has
\* returned, its transaction rolled back.
C10_Witness ==
  \E r \in Reqs :
    /\ rq[r].op = "create" /\ rq[r].pc = "done" /\ rq[r].err = "store"
    /\ txs[r].state = "rolledback"
    /\ rq[r].idx = Len(rq[r].body.items) /\ rq[r].idx = MaxItems

\* Every order row of the store: committed, or written inside a
\* transaction that is still open.
AllOrderRows ==
  {orders[i] : i \in 1..Len(orders)}
    \cup UNION {{txs[r].orders[i] : i \in 1..Len(txs[r].orders)} : r \in Reqs}

\* C11 (persisted total): in every reachable state, whatever create_order
\* and update_order_status calls succeeded or failed before it, every order
\* row of the store has total = subtotal + shipping.
C11_PersistedTotal ==
  \A row \in AllOrderRows : row.total = row.subtotal + row.shipping

\* C11 witness: an order was committed and its status was then updated to
\* another value by a successful update_order_status.
C11_Witness ==
  \E c, u \in Reqs :
    /\ rq[c].op = "create" /\ txs[c].state = "committed"
    /\ rq[u].op = "update" /\ rq[u].pc = "done" /\ rq[u].err = "nil"
    /\ \E i \in 1..Len(orders) :
         /\ orders[i].id = rq[c].id /\ Itoa(orders[i].id) = rq[u].idParam
         /\ orders[i].status = "shipped" /\ orders[i].subtotal > 0

\* The columns of an order row that no operation may change once the row is
\* committed: all but status and updated_at.
Frozen(row) ==
  [ id |-> row.id, user_id |-> row.user_id, subtotal |-> row.subtotal,
    shipping |-> row.shipping, total |-> row.total, created_at |-> row.created_at ]

\* Request u is an update_order_status of order id whose UPDATE is applied
\* in this step.
AppliesUpdate(u, id) ==
  /\ rq[u].op = "update" /\ rq[u].pc = "updateStatus" /\ rq'[u].pc = "done"
  /\ rq'[u].err = "nil"
  /\ TextToInt(rq[u].idParam) = id

\* A successful update_order_status of order id (given as text) has returned.
UpdatedBefore(id) ==
  \E u \in Reqs :
    rq[u].op = "update" /\ rq[u].pc = "done" /\ rq[u].err = "nil" /\ rq[u].idParam = id

\* Request r is a get_order that returned an order, every row scanned.
GotOrder(r) ==
  rq[r].op = "get" /\ rq[r].pc = "done" /\ rq[r].status = 200 /\ rq[r].scanErrs = 0

C12_TwoSnapshots ==
  \E r1, r2 \in Reqs :
    r1 # r2 /\ GotOrder(r1) /\ GotOrder(r2) /\ rq[r1].idParam = rq[r2].idParam
      /\ Len(rq[r1].out.Items) = 2

\* Request u's UPDATE is answered by the store in this step (the statement
\* did not fail for want of a connection or of time).
UpdateAnswered(u) ==
  /\ rq[u].op = "update" /\ rq[u].pc = "updateStatus" /\ rq'[u].pc = "done"
  /\ rq'[u].err # "store"

\* C13 as claimed, for a store that is up: update_order_status(id, s)
\* returns OrderNotFound and changes no stored order exactly when no order
\* with that id exists; when the order exists it succeeds for every s,
\* whatever the current status, and the order's status is s afterwards.
C13_Claimed ==
  [][\A u \in Reqs :
       UpdateAnswered(u) =>
         IF \E i \in 1..Len(orders) : Itoa(orders[i].id) = rq[u].idParam
         THEN /\ rq'[u].err = "nil"
              /\ \A i \in 1..Len(orders) :
                   Itoa(orders[i].id) = rq[u].idParam => orders'[i].status = rq[u].newStatus
         ELSE /\ rq'[u].err = "ErrOrderNotFound"
              /\ orders' = orders]_vars

\* The same for ids that are the text of an integer: holds.
C13_IntegerIds ==
  [][\A u \in Reqs :
       (UpdateAnswered(u) /\ TextToInt(rq[u].idParam) # -1) =>
         IF \E i \in 1..Len(orders) : Itoa(orders[i].id) = rq[u].idParam
         THEN /\ rq'[u].err = "nil"
              /\ \A i \in 1..Len(orders) :
                   Itoa(orders[i].id) = rq[u].idParam => orders'[i].status = rq[u].newStatus
         ELSE /\ rq'[u].err = "ErrOrderNotFound"
              /\ orders' = orders]_vars

\* Request r's list_orders query is answered in this step.
ListAnswered(r) ==
  /\ rq[r].op = "list" /\ rq[r].pc = "findByUser" /\ rq'[r].pc = "done"
  /\ rq'[r].err # "store"

\* Indices of the committed order rows of user u.
RowsOfUser(u) == {i \in 1..Len(orders) : orders[i].user_id = u}

C14_EmptyList ==
  \E r \in Reqs :
    /\ rq[r].op = "list" /\ rq[r].pc = "done" /\ rq[r].status = 200
    /\ rq[r].out = <<>> /\ Len(orders) > 0

\* Request r is a create_order with items that got past validation.
CreatesOrder(r) ==
  rq[r].op = "create" /\ rq[r].svcCalls > 0 /\ rq[r].body.items # <<>>

\* C15 (concurrent creation): however create_order calls interleave, a call
\* none of whose store operations failed has committed when it returns; the
\* ids assigned to two calls differ, and so do the ids of two returned
\* orders; the item rows a call has written, inside its transaction or
\* committed, carry its own id, and the committed items of its order are
\* exactly the items of its own request.
C15_ConcurrentCreation ==
  /\ \A r \in Reqs :
       CreatesOrder(r) =>
         /\ (rq[r].pc \in {"cart", "done"} /\ rq[r].err # "store") =>
              (txs[r].state = "committed" /\ rq[r].err = "nil" /\ rq[r].order.ID = Itoa(rq[r].id))
         /\ \A k \in 1..Len(txs[r].items) : txs[r].items[k].order_id = rq[r].id
         /\ txs[r].state = "committed" =>
              /\ StoredItems(rq[r].id) = EnrichLoop(rq[r].body.items, 1, <<>>, 0).Items
              /\ Cardinality({i \in 1..Len(orders) : orders[i].id = rq[r].id}) = 1
  /\ \A r1, r2 \in Reqs :
       (r1 # r2 /\ CreatesOrder(r1) /\ CreatesOrder(r2) /\ rq[r1].id # 0 /\ rq[r2].id # 0) =>
         /\ rq[r1].id # rq[r2].id
         /\ (rq[r1].order # Nil /\ rq[r2].order # Nil) => rq[r1].order.ID # rq[r2].order.ID

\* C15 witness: two create_order calls of the same user with different
\* items have both committed, the one that inserted its order row second
\* committing first.
C15_Witness ==
  \E r1, r2 \in Reqs :
    /\ CreatesOrder(r1) /\ CreatesOrder(r2)
    /\ rq[r1].ctxUser = rq[r2].ctxUser
    /\ txs[r1].state = "committed" /\ txs[r2].state = "committed"
    /\ rq[r1].status = 201 /\ rq[r2].status = 201
    /\ rq[r1].body.items # rq[r2].body.items
    /\ rq[r1].id < rq[r2].id
    /\ orders[1].id = rq[r2].id /\ orders[2].id = rq[r1].id

\* The request of create_order r was cancelled after Begin had succeeded
\* and before Commit had.
CancelledMidTransaction(r) ==
  /\ rq[r].op = "create" /\ rq[r].cancelled
  /\ rq[r].cancelPc \in {"insertOrder", "insertItem", "commit"}

\* C16 (cancellation mid-transaction): a create_order whose request was
\* cancelled after Begin and before Commit succeeded never commits; no
\* order row or item row of it is ever visible; when it has returned, its
\* transaction is rolled back, not open, it has returned an error (the
\* handler answers 500) and no cart call was issued.
C16_CancellationMidTransaction ==
  /\ [](\A r \in Reqs :
          CancelledMidTransaction(r) =>
            /\ txs[r].state \in {"open", "rolledback"}
            /\ rq[r].id # 0 => rq[r].id \notin VisibleIds
            /\ rq[r].pc # "cart" /\ rq[r].cartCalls = 0
            /\ rq[r].pc = "done" =>
                 /\ txs[r].state = "rolledback"
                 /\ rq[r].err = "store" /\ rq[r].status = 500 /\ rq[r].order = Nil)
  /\ [][\A r \in Reqs :
          (rq[r].cancelled /\ txs[r].state = "open") => txs'[r].state # "committed"]_vars

\* C16 witness: a create_order that had inserted its order row and all its
\* items when its request was cancelled, before Commit, has returned.
C16_Witness ==
  \E r \in Reqs :
    /\ CancelledMidTransaction(r) /\ rq[r].cancelPc = "commit"
    /\ rq[r].idx = MaxItems
    /\ rq[r].pc = "done" /\ txs[r].state = "rolledback" /\ rq[r].status = 500

\* C17 as claimed: every item of every order create_order has persisted or
\* returned has quantity > 0, price >= 0 and subtotal = price * quantity,
\* and a request with an item of quantity <= 0 or price < 0 results in no
\* returned or persisted order.
C17_Claimed ==
  /\ \A k \in 1..Len(order_items) :
       /\ order_items[k].quantity > 0
       /\ order_items[k].price >= 0
       /\ order_items[k].subtotal = order_items[k].price * order_items[k].quantity
  /\ \A r \in Reqs :
       (rq[r].op = "create" /\ rq[r].body # Nil
          /\ \E k \in 1..Len(rq[r].body.items) :
               rq[r].body.items[k].quantity <= 0 \/ rq[r].body.items[k].price < 0) =>
         /\ rq[r].status # 201
         /\ txs[r].state # "committed"

\* What does hold: every persisted item has subtotal = price * quantity.
C17_ItemSubtotals ==
  \A k \in 1..Len(order_items) :
    order_items[k].subtotal = order_items[k].price * order_items[k].quantity

\* C18 as claimed: a find_by_id that returns without error returns the
\* order together with every one of its persisted items, also when the
\* Scan of an item row fails.
C18_Claimed ==
  \A r \in Reqs :
    (rq[r].op \in {"get", "details"} /\ rq[r].pc \in {"shipment", "done"}
       /\ rq[r].order # Nil) =>
      rq[r].order.Items = StoredItems(rq[r].id)

\* What does hold: the items returned are persisted items of that order, in
\* retrieval order, and all of them when no Scan failed.
C18_NoForeignItems ==
  \A r \in Reqs :
    (rq[r].op \in {"get", "details"} /\ rq[r].pc \in {"shipment", "done"}
       /\ rq[r].order # Nil) =>
      /\ Len(rq[r].order.Items) + rq[r].scanErrs = Len(StoredItems(rq[r].id))
      /\ \A k \in 1..Len(rq[r].order.Items) :
           \E j \in 1..Len(StoredItems(rq[r].id)) :
             rq[r].order.Items[k] = StoredItems(rq[r].id)[j]
      /\ rq[r].scanErrs = 0 => rq[r].order.Items = StoredItems(rq[r].id)

\* Request r has gone through a create entry point of the store (Create or
\* CreateWithTx), which assigned an id, and its caller has ended its
\* transaction.
CreateReturned(r) ==
  /\ rq[r].op \in {"create", "repoCreate"} /\ rq[r].id # 0
  /\ rq[r].pc \in {"cart", "done"}

\* C19 as claimed: whichever create entry point of the store was used, once
\* the caller has committed or rolled back, the order row is persisted only
\* together with all of its item rows: after a failed item insert the
\* caller's rollback has removed the order row and the item rows inserted
\* before it.
C19_Claimed ==
  \A r \in Reqs :
    CreateReturned(r) =>
      IF rq[r].err = "nil"
      THEN /\ \E i \in 1..Len(orders) : orders[i].id = rq[r].id
           /\ Len(StoredItems(rq[r].id)) = Len(rq[r].body.items)
      ELSE rq[r].id \notin VisibleIds

\* What does hold: the claim for CreateWithTx alone.
C19_CreateWithTxOnly ==
  \A r \in Reqs :
    (CreateReturned(r) /\ rq[r].op = "create") =>
      IF rq[r].err = "nil"
      THEN /\ \E i \in 1..Len(orders) : orders[i].id = rq[r].id
           /\ Len(StoredItems(rq[r].id)) = Len(rq[r].body.items)
      ELSE rq[r].id \notin VisibleIds

(* ------------------------------ liveness ------------------------------ *)

\* A step of request r once it has arrived: every database statement
\* returns and every outbound HTTP call answers or hits its client timeout,
\* so a handler that can take its next step does take it.
Proceed(r) ==
  \/ TxBegin(r)
  \/ CreateWithTxOrder(r)
  \/ CreateWithTxItem(r)
  \/ TxCommit(r)
  \/ DeferredRollback(r)
  \/ HandlerClearCart(r)
  \/ FindByIDOrder(r)
  \/ FindByIDItems(r)
  \/ HandlerShipment(r)
  \/ FindByUserID(r)
  \/ UpdateStatus(r)

FairSpec == Spec /\ \A r \in Reqs : WF_vars(Proceed(r))

\* Request r is a POST /orders whose transaction committed or a GET
\* /orders/{id}/details whose order was found.
AwaitsBestEffort(r) ==
  \/ rq[r].op = "create" /\ txs[r].state = "committed"
  \/ rq[r].op = "details" /\ rq[r].pc = "shipment"

\* C20 (liveness of the best-effort calls): every POST /orders request
\* whose transaction committed is eventually answered 201, and every GET
\* /orders/{id}/details request whose order was found is eventually
\* answered 200, whatever the cart and shipping services do, a timeout
\* included; a response, once written, is never changed or written again.
C20_BestEffortLiveness ==
  /\ \A r \in Reqs :
       AwaitsBestEffort(r)
         ~> (rq[r].pc = "done" /\ rq[r].status = IF rq[r].op = "create" THEN 201 ELSE 200)
  /\ [][\A r \in Reqs :
          rq[r].status # 0 =>
            (rq'[r].status = rq[r].status /\ rq'[r].out = rq[r].out /\ rq'[r].pc = "done")]_vars

\* C20 witness: a create whose cart clear hit the client timeout has been
\* answered 201.
C20_Witness ==
  \E r \in Reqs :
    /\ rq[r].op = "create" /\ rq[r].cartOut = "timeout"
    /\ rq[r].pc = "done" /\ rq[r].status = 201

\* Request g is a get_order that has the order of create_order c in hand:
\* its first query found the row c inserted.
ReadsOrderOf(g, c) ==
  /\ rq[g].op \in {"get", "details"} /\ rq[g].order # Nil
  /\ rq[c].op = "create" /\ rq[c].id # 0
  /\ rq[g].id = rq[c].id

C21_NotFoundBeforeCommit ==
  \E g, c \in Reqs :
    /\ rq[g].op = "get" /\ rq[g].pc = "done" /\ rq[g].err = "ErrOrderNotFound"
    /\ rq[c].op = "create" /\ txs[c].state = "open" /\ Len(txs[c].items) >= 1
    /\ rq[g].idParam = Itoa(rq[c].id)

\* create_order of request c has returned an order without error.
ReturnedOrder(c) ==
  /\ rq[c].op = "create" /\ rq[c].svcCalls > 0
  /\ rq[c].pc \in {"cart", "done"} /\ rq[c].err = "nil"

\* The fields of an order that a create and a later read must agree on
\* (all but CreatedAt, which create_order leaves at its zero value).
RoundTripFields(o) ==
  [ ID |-> o.ID, UserID |-> o.UserID, Status |-> o.Status, Subtotal |-> o.Subtotal,
    Shipping |-> o.Shipping, Total |-> o.Total, Items |-> o.Items ]

====
